---- MODULE Spec2Model ----
(***************************************************************************)
(* Model of src/youtube_to_instagram.py: the YouTubeMarketingGenerator     *)
(* pipeline (download -> caption -> export) and the main() that drives it. *)
(*                                                                         *)
(* Times are rationals in the code (floats).  Here every time is an        *)
(* integer number of quarter seconds, total durations are whole numbers of *)
(* half seconds and clip_duration is a whole number of seconds (an int in  *)
(* the code), so that (total_duration - clip_duration) / 2 is exact.       *)
(* Strings are sequences of one-character strings.                         *)
(***************************************************************************)
EXTENDS Integers, Sequences, FiniteSets

VARIABLES
    pc,              \* position of the process in main() / process_video()
    clip_duration,   \* self.clip_duration, in seconds
    text_generator,  \* self.text_generator: "gpt2" once loaded, "unset" before
    fs,              \* the files under downloads/: path -> content
    youtube_url,     \* argument of process_video
    video_path,      \* local of process_video: path returned by the download
    response,        \* what self.text_generator(...) answered in this run
    caption,         \* local of process_video
    cut,             \* total_duration and the range passed to subclipped
    fault,           \* the exception object the failing call raised
    raised,          \* the exception that left process_video / __init__
    result,          \* the dict process_video returned
    log,             \* records emitted through self.logger, in order
    calls,           \* the stages process_video has invoked in this run
    writes           \* the paths this process has written to

vars == << pc, clip_duration, text_generator, fs, youtube_url, video_path,
           response, caption, cut, fault, raised, result, log, calls,
           writes >>

----------------------------------------------------------------------------
(* Bounds of the model *)

NumUrls == 2
MaxHalfSeconds == 3
MaxClipSeconds == 2
MaxTextLen == 2

Urls == 1..NumUrls
\* total durations of the remote videos, in quarter seconds
TotalDurations == {2 * h : h \in 0..MaxHalfSeconds}
ClipDurations == 0..MaxClipSeconds
Exts == {"mp4", "webm"}

Chars == {" ", "a"}
Whitespace == {" "}
Strings == UNION {[1..n -> Chars] : n \in 0..MaxTextLen}

None == [none |-> TRUE]

----------------------------------------------------------------------------
(* Pure helpers *)

Max(a, b) == IF a >= b THEN a ELSE b

\* seconds -> quarter seconds
Quarters(seconds) == 4 * seconds

RECURSIVE lstrip(_)
lstrip(s) ==
    IF s # <<>> /\ Head(s) \in Whitespace THEN lstrip(Tail(s)) ELSE s

RECURSIVE rstrip(_)
rstrip(s) ==
    IF s # <<>> /\ s[Len(s)] \in Whitespace
    THEN rstrip(SubSeq(s, 1, Len(s) - 1))
    ELSE s

\* str.strip()
strip(s) == rstrip(lstrip(s))

\* "Check out this amazing video!"
DefaultCaption ==
    << "C","h","e","c","k"," ","o","u","t"," ","t","h","i","s"," ",
       "a","m","a","z","i","n","g"," ","v","i","d","e","o","!" >>

----------------------------------------------------------------------------
(* Files *)

SourcePath(ext) == "downloads/source_video." \o ext
OutputPath == "downloads/instagram_clip.mp4"
Paths == {SourcePath(e) : e \in Exts} \cup {OutputPath}

NoFile == [exists |-> FALSE]
\* a downloaded source: which URL it came from and how long it plays
SourceFile(url, duration) ==
    [exists |-> TRUE, url |-> url, duration |-> duration]
\* an exported clip: the URL of the source it was cut from and whether the
\* encoder finished writing it
ClipFile(url, complete) ==
    [exists |-> TRUE, url |-> url, complete |-> complete]

----------------------------------------------------------------------------
(* Exceptions and log records *)

Error(type, stage) == [type |-> type, stage |-> stage, cause |-> "none"]

\* a variant of Reraise: the except block raises a new exception that wraps
\* the caught one
WrapError(e) == [type |-> "RuntimeError", stage |-> e.stage, cause |-> e.type]

\* a bare `raise` inside an except block re-raises the caught exception
Reraise(e) == e

LogRecord(level, msg, e) == [level |-> level, msg |-> msg, error |-> e]

----------------------------------------------------------------------------
(* Caption Model Adapter: what self.text_generator(prompt, ...) can do *)

\* kind "raises":     the call raises
\* kind "empty_list": it returns []
\* kind "no_key":     it returns [{}] (no 'generated_text' key)
\* kind "not_str":    it returns [{'generated_text': None}]
\* kind "text":       it returns [{'generated_text': text}]
AdapterResponse(kind, text) == [kind |-> kind, text |-> text]

AdapterResponses ==
    {AdapterResponse(k, <<>>) :
        k \in {"raises", "empty_list", "no_key", "not_str"}}
    \cup {AdapterResponse("text", s) : s \in Strings}

\* the exception raised inside the try block of generate_marketing_caption
CaptionErrorType(resp) ==
    CASE resp.kind = "raises"     -> "RuntimeError"
      [] resp.kind = "empty_list" -> "IndexError"
      [] resp.kind = "no_key"     -> "KeyError"
      [] resp.kind = "not_str"    -> "AttributeError"
      [] OTHER                    -> "none"

CaptionFails(resp) == CaptionErrorType(resp) # "none"

\* a variant of generate_marketing_caption: the except block returns an
\* empty caption instead of the default
generate_marketing_caption_empty(resp) ==
    IF CaptionFails(resp) THEN <<>> ELSE strip(resp.text)

\* the value generate_marketing_caption returns
generate_marketing_caption(resp) ==
    IF CaptionFails(resp) THEN DefaultCaption ELSE strip(resp.text)

----------------------------------------------------------------------------
(* Clip window *)

\* a variant of StartTime: the division by 2 is missing
StartTimeNotHalved(total_duration, clip_seconds) ==
    Max(0, total_duration - Quarters(clip_seconds))

\* start_time = max(0, (total_duration - self.clip_duration) / 2)
StartTime(total_duration, clip_seconds) ==
    Max(0, (total_duration - Quarters(clip_seconds)) \div 2)

\* the second argument of subclipped
EndTime(start_time, clip_seconds) == start_time + Quarters(clip_seconds)

Cut(total_duration, clip_seconds) ==
    [total_duration |-> total_duration,
     start |-> StartTime(total_duration, clip_seconds),
     end |-> EndTime(StartTime(total_duration, clip_seconds), clip_seconds)]

----------------------------------------------------------------------------
(* Initial state: a fresh process and an empty downloads directory *)

Init ==
    /\ pc = "start"
    /\ clip_duration = 0
    /\ text_generator = "unset"
    /\ fs = [p \in Paths |-> NoFile]
    /\ youtube_url = 0
    /\ video_path = ""
    /\ response = None
    /\ caption = <<>>
    /\ cut = None
    /\ fault = None
    /\ raised = None
    /\ result = None
    /\ log = <<>>
    /\ calls = <<>>
    /\ writes = {}

----------------------------------------------------------------------------
(* __init__ *)

\* the model loads
NewLoads ==
    /\ pc = "start"
    /\ \E cd \in ClipDurations : clip_duration' = cd
    /\ text_generator' = "gpt2"
    /\ pc' = "ready"
    /\ UNCHANGED << fs, youtube_url, video_path, response, caption, cut,
                    fault, raised, result, log, calls, writes >>

\* transformers.pipeline raises: logged and re-raised; main() constructs the
\* generator outside its try block, so the exception ends the process
NewLoadFails ==
    /\ pc = "start"
    /\ \E cd \in ClipDurations : clip_duration' = cd
    /\ LET e == Error("OSError", "model_load") IN
        /\ fault' = e
        /\ log' = Append(log,
                LogRecord("ERROR", "Failed to load text generation model", e))
        /\ raised' = Reraise(e)
    /\ pc' = "crashed"
    /\ UNCHANGED << text_generator, fs, youtube_url, video_path, response,
                    caption, cut, result, calls, writes >>

----------------------------------------------------------------------------
(* process_video *)

ProcessVideo ==
    /\ pc = "ready"
    /\ \E url \in Urls : youtube_url' = url
    /\ pc' = "download"
    /\ UNCHANGED << clip_duration, text_generator, fs, video_path, response,
                    caption, cut, fault, raised, result, log, calls, writes >>

\* a stage raised e: the stage's except block logs msg and re-raises, then
\* the except block of process_video logs and re-raises
StageFails(e, msg) ==
    /\ fault' = e
    /\ log' = log \o
            << LogRecord("ERROR", msg, e),
               LogRecord("ERROR", "Video processing failed", Reraise(e)) >>
    /\ raised' = Reraise(Reraise(e))
    /\ pc' = "raised"

\* download_youtube_video succeeds.  'nooverwrites': True makes yt-dlp keep
\* an existing file at the output template's path and skip the download
DownloadOk ==
    /\ pc = "download"
    /\ \E ext \in Exts, duration \in TotalDurations :
        LET path == SourcePath(ext) IN
        /\ fs' = IF fs[path].exists
                 THEN fs
                 ELSE [fs EXCEPT ![path] = SourceFile(youtube_url, duration)]
        /\ writes' = IF fs[path].exists THEN writes ELSE writes \cup {path}
        /\ video_path' = path
    /\ log' = Append(log,
            LogRecord("INFO", "Successfully downloaded video", None))
    /\ calls' = Append(calls, "fetch")
    /\ pc' = "caption"
    /\ UNCHANGED << clip_duration, text_generator, youtube_url, response,
                    caption, cut, fault, raised, result >>

\* a variant of DownloadFails: the failure is logged and not re-raised, and
\* the pipeline goes on with the usual source path
DownloadFailsSwallowed ==
    /\ pc = "download"
    /\ calls' = Append(calls, "fetch")
    /\ fault' = Error("DownloadError", "fetch")
    /\ log' = Append(log,
            LogRecord("ERROR", "Video download failed", fault'))
    /\ video_path' = SourcePath("mp4")
    /\ pc' = "caption"
    /\ UNCHANGED << clip_duration, text_generator, fs, youtube_url, response,
                    caption, cut, raised, result, writes >>

\* download_youtube_video raises
DownloadFails ==
    /\ pc = "download"
    /\ calls' = Append(calls, "fetch")
    /\ StageFails(Error("DownloadError", "fetch"), "Video download failed")
    /\ UNCHANGED << clip_duration, text_generator, fs, youtube_url,
                    video_path, response, caption, cut, result, writes >>

\* generate_marketing_caption: never raises an Exception outward
Caption ==
    /\ pc = "caption"
    /\ \E resp \in AdapterResponses :
        /\ response' = resp
        /\ caption' = generate_marketing_caption(resp)
        /\ log' = IF CaptionFails(resp)
                  THEN Append(log,
                        LogRecord("WARNING", "Caption generation failed",
                                  Error(CaptionErrorType(resp), "caption")))
                  ELSE log
    /\ calls' = Append(calls, "caption")
    /\ pc' = "export"
    /\ UNCHANGED << clip_duration, text_generator, fs, youtube_url,
                    video_path, cut, fault, raised, result, writes >>

\* export_instagram_video: VideoFileClip(video_path) raises
ExportOpenFails ==
    /\ pc = "export"
    /\ calls' = Append(calls, "transcode")
    /\ StageFails(Error("OSError", "transcode"), "Video export failed")
    /\ UNCHANGED << clip_duration, text_generator, fs, youtube_url,
                    video_path, response, caption, cut, result, writes >>

\* export_instagram_video: subclipped(start, end) raises ValueError.  It
\* always does when start >= duration; whether it does when end > duration
\* depends on the moviepy release (later ones raise, earlier ones cut on)
ExportSubclipFails ==
    /\ pc = "export"
    /\ fs[video_path].exists
    /\ LET c == Cut(fs[video_path].duration, clip_duration) IN
        /\ c.start >= c.total_duration \/ c.end > c.total_duration
        /\ cut' = c
    /\ calls' = Append(calls, "transcode")
    /\ StageFails(Error("ValueError", "transcode"), "Video export failed")
    /\ UNCHANGED << clip_duration, text_generator, fs, youtube_url,
                    video_path, response, caption, result, writes >>

\* the file write_videofile leaves at OutputPath: it encodes straight into
\* the output path, so a failure midway leaves what was written so far
Written(files, url, outcome) ==
    CASE outcome = "fails_before" -> files
      [] outcome = "fails_midway" ->
            [files EXCEPT ![OutputPath] = ClipFile(url, FALSE)]
      [] OTHER -> [files EXCEPT ![OutputPath] = ClipFile(url, TRUE)]

\* subclipped(start, end) returns: start < duration, and either
\* end <= duration or the moviepy release in use cuts on past the end
Subclipped ==
    /\ fs[video_path].exists
    /\ LET c == Cut(fs[video_path].duration, clip_duration) IN
        /\ c.start < c.total_duration
        /\ cut' = c

\* export_instagram_video: the clip is cut, write_videofile completes and
\* output_path is returned
ExportWriteOk ==
    /\ pc = "export"
    /\ Subclipped
    /\ calls' = Append(calls, "transcode")
    /\ fs' = Written(fs, fs[video_path].url, "ok")
    /\ writes' = writes \cup {OutputPath}
    /\ pc' = "assemble"
    /\ UNCHANGED << clip_duration, text_generator, youtube_url, video_path,
                    response, caption, fault, raised, result, log >>

\* a variant of ExportWriteFails: the failure is logged and not re-raised,
\* and output_path is returned all the same
ExportWriteFailsSwallowed ==
    /\ pc = "export"
    /\ Subclipped
    /\ calls' = Append(calls, "transcode")
    /\ \E outcome \in {"fails_before", "fails_midway"} :
        /\ fs' = Written(fs, fs[video_path].url, outcome)
        /\ writes' = IF outcome = "fails_midway"
                     THEN writes \cup {OutputPath}
                     ELSE writes
    /\ fault' = Error("IOError", "transcode")
    /\ log' = Append(log, LogRecord("ERROR", "Video export failed", fault'))
    /\ pc' = "assemble"
    /\ UNCHANGED << clip_duration, text_generator, youtube_url, video_path,
                    response, caption, raised, result >>

\* export_instagram_video: the clip is cut and write_videofile raises,
\* before it has opened the output file or midway through writing it
ExportWriteFails ==
    /\ pc = "export"
    /\ Subclipped
    /\ calls' = Append(calls, "transcode")
    /\ \E outcome \in {"fails_before", "fails_midway"} :
        /\ fs' = Written(fs, fs[video_path].url, outcome)
        /\ writes' = IF outcome = "fails_midway"
                     THEN writes \cup {OutputPath}
                     ELSE writes
    /\ StageFails(Error("IOError", "transcode"), "Video export failed")
    /\ UNCHANGED << clip_duration, text_generator, youtube_url, video_path,
                    response, caption, result >>

\* the return statement of process_video
Assemble ==
    /\ pc = "assemble"
    /\ result' = [video_path |-> OutputPath, caption |-> caption]
    /\ calls' = Append(calls, "result")
    /\ pc' = "returned"
    /\ UNCHANGED << clip_duration, text_generator, fs, youtube_url,
                    video_path, response, caption, cut, fault, raised, log,
                    writes >>

----------------------------------------------------------------------------
(* main *)

\* main() has printed the result or the error, or the constructor's
\* exception has ended the process; the program is started again.  Only the
\* files under downloads/ survive
Rerun ==
    /\ pc \in {"returned", "raised", "crashed"}
    /\ pc' = "start"
    /\ clip_duration' = 0
    /\ text_generator' = "unset"
    /\ youtube_url' = 0
    /\ video_path' = ""
    /\ response' = None
    /\ caption' = <<>>
    /\ cut' = None
    /\ fault' = None
    /\ raised' = None
    /\ result' = None
    /\ log' = <<>>
    /\ calls' = <<>>
    /\ writes' = {}
    /\ UNCHANGED fs

Next ==
    \/ NewLoads
    \/ NewLoadFails
    \/ ProcessVideo
    \/ DownloadOk
    \/ DownloadFails
    \/ Caption
    \/ ExportOpenFails
    \/ ExportSubclipFails
    \/ ExportWriteOk
    \/ ExportWriteFails
    \/ Assemble
    \/ Rerun

Spec == Init /\ [][Next]_vars

----------------------------------------------------------------------------
(* Properties *)

Range(seq) == {seq[i] : i \in 1..Len(seq)}

IsPrefix(s, t) == Len(s) <= Len(t) /\ SubSeq(t, 1, Len(s)) = s

StageOrder == << "fetch", "caption", "transcode", "result" >>

\* the adapter failed at generation time in this run
CaptionFailed == response # None /\ CaptionFails(response)

\* the fatal stage that failed in this run, if any
FailedAt(stage) == fault # None /\ fault.stage = stage

C2_ClampedWindow ==
    (cut # None /\ Quarters(clip_duration) > cut.total_duration) =>
        /\ cut.start = 0
        /\ 0 <= cut.start
        /\ cut.start <= cut.end
        /\ cut.end <= cut.total_duration

\* C3: once generate_marketing_caption has returned, the caption is a
\* non-empty string, and so is the caption of a returned result.
C3_CaptionNonEmpty ==
    /\ "caption" \in Range(calls) => Len(caption) > 0
    /\ result # None => Len(result.caption) > 0

\* C4: when the adapter fails at generation time, the caption is the default
\* caption, the caption stage is not what makes process_video raise, and a
\* run that gets through the export returns the clip path with the default
\* caption.
C4_CaptionFailureAbsorbed ==
    CaptionFailed =>
        /\ caption = DefaultCaption
        /\ pc \in {"export", "assemble", "returned", "raised"}
        /\ pc = "raised" => FailedAt("transcode")
        /\ pc = "returned" =>
            result = [video_path |-> OutputPath, caption |-> DefaultCaption]

\* the adapter returned an empty list, fetch and export succeeded, and the
\* result carries the default caption
C4_Witness ==
    /\ pc = "returned"
    /\ response = AdapterResponse("empty_list", <<>>)
    /\ fault = None
    /\ result.caption = DefaultCaption
    /\ fs[OutputPath] = ClipFile(youtube_url, TRUE)

\* C5: a failure to load the caption model is recovered locally: nothing is
\* raised out of the constructor and the process is not ended by it.
C5_ModelLoadRecovered ==
    FailedAt("model_load") => (raised = None /\ pc # "crashed")

\* C6: when the download fails, process_video raises, the fetch was called
\* once and nothing after it, no result exists and this process has written
\* nothing at the clip output path.
C6_FetchFailureFatal ==
    FailedAt("fetch") =>
        /\ pc = "raised"
        /\ raised # None
        /\ calls = << "fetch" >>
        /\ result = None
        /\ OutputPath \notin writes

\* the download failed in a re-run, with the clip of an earlier run on disk
C6_Witness ==
    /\ pc = "raised"
    /\ fault = Error("DownloadError", "fetch")
    /\ fs[OutputPath].exists

\* C7: after export_instagram_video has ended, either it succeeded and a
\* complete file is at the output path, or it failed and the output path
\* holds no partial file.
C7_AtomicWrite ==
    ("transcode" \in Range(calls) /\ pc \in {"assemble", "returned", "raised"})
    =>  IF pc = "raised"
        THEN ~fs[OutputPath].exists \/ fs[OutputPath].complete
        ELSE fs[OutputPath].exists /\ fs[OutputPath].complete

\* C8: after a successful run, the downloaded source file and the exported
\* clip both hold the content of that run's URL.
C8_RerunOverwrites ==
    pc = "returned" =>
        /\ fs[video_path].url = youtube_url
        /\ fs[OutputPath].url = youtube_url

\* C9: the exception that leaves process_video is the one the failing fetch
\* or transcode call raised; a caption error is logged at WARNING level, at
\* no other level, and never leaves process_video.
C9_ErrorsUnchanged ==
    /\ pc = "raised" =>
        /\ raised = fault
        /\ fault.stage \in {"fetch", "transcode"}
        /\ \A i \in 1..Len(log) :
            log[i].level = "ERROR" => log[i].error = fault
    /\ CaptionFailed =>
        /\ \E i \in 1..Len(log) :
            log[i] = LogRecord("WARNING", "Caption generation failed",
                               Error(CaptionErrorType(response), "caption"))
        /\ \A i \in 1..Len(log) :
            (log[i].error # None /\ log[i].error.stage = "caption")
                => log[i].level = "WARNING"
        /\ raised # None => raised.stage # "caption"

\* the adapter raised and was swallowed, then the write failed and its
\* exception left process_video
C9_Witness ==
    /\ pc = "raised"
    /\ response = AdapterResponse("raises", <<>>)
    /\ raised = Error("IOError", "transcode")
    /\ Len(log) = 4

\* C10: the stages run in the order fetch, caption, transcode, result, each
\* at most once; the transcoder runs only after a successful fetch; a result
\* exists exactly when its assembly has run, which is only after a
\* successful transcode, and a finished run has a result exactly when no
\* fatal stage failed.
C10_LinearOrder ==
    /\ IsPrefix(calls, StageOrder)
    /\ "transcode" \in Range(calls) => (video_path # "" /\ ~FailedAt("fetch"))
    /\ "result" \in Range(calls) =>
        (fault = None /\ fs[OutputPath].exists /\ fs[OutputPath].complete)
    /\ result # None <=> "result" \in Range(calls)
    /\ pc \in {"returned", "raised"} => (result # None <=> fault = None)
    /\ pc = "returned" <=> result # None

\* a run that went through all four steps with a failed caption
C10_Witness ==
    /\ calls = StageOrder
    /\ CaptionFailed
    /\ result # None

====
